---- MODULE Spec2Model ----
(***************************************************************************)
(* ArborAI file search engine (ArborAI_File_Search_Engine.py): the filter  *)
(* predicate FilterCriteria.should_include, the collector collect_files    *)
(* and the menu loop with its four actions, over a small file system.      *)
(*                                                                         *)
(* Strings the code inspects (entry names, keywords, yes/no answers) are   *)
(* sequences of one-character strings, so that lower(), endswith() and     *)
(* the substring test are computed rather than assumed.                    *)
(***************************************************************************)
EXTENDS Integers, Sequences, FiniteSets, TLC

VARIABLES
    pc,         \* position of main(): "menu", "returned", "exited", "crashed"
                \* (filter specification: "filter", "evaluated")
    choice,     \* the menu choice read by main()
    criteria,   \* the FilterCriteria (present = FALSE: None) that the last action gave to
                \* collect_files, or that should_include is tried on (filter specification)
    fs,         \* the file system: existing path -> [kind, size, age]
    pre,        \* the file system when the running / last action started
    trace,      \* what the last action did, in order: prompts answered, mutations attempted
    out,        \* the lines the last action printed, in order
    data,       \* what collect_files returned to the last action, if it was called
    probe,      \* the entry handed to should_include (filter specification)
    included    \* the value should_include returned for the probe

vars == <<pc, choice, criteria, fs, pre, trace, out, data, probe, included>>

-----------------------------------------------------------------------------
(* Strings *)

\* str.lower() on the characters the model uses
LowerChar(ch) ==
    CASE ch = "A" -> "a"
      [] ch = "E" -> "e"
      [] ch = "G" -> "g"
      [] ch = "I" -> "i"
      [] ch = "J" -> "j"
      [] ch = "L" -> "l"
      [] ch = "O" -> "o"
      [] ch = "R" -> "r"
      [] ch = "S" -> "s"
      [] ch = "T" -> "t"
      [] ch = "X" -> "x"
      [] ch = "Y" -> "y"
      [] OTHER -> ch

Lower(s) == [i \in 1..Len(s) |-> LowerChar(s[i])]

\* s.endswith(suffix)
EndsWith(s, suffix) ==
    /\ Len(suffix) <= Len(s)
    /\ SubSeq(s, Len(s) - Len(suffix) + 1, Len(s)) = suffix

\* the substring test `sub in s`
Contains(s, sub) ==
    \E i \in 0..(Len(s) - Len(sub)) : SubSeq(s, i + 1, i + Len(sub)) = sub

DotJar  == <<".", "j", "a", "r">>
DotJson == <<".", "j", "s", "o", "n">>
Yes     == <<"y", "e", "s">>

\* Python's None for a keyword that was never entered
None == <<"None">>

\* truthiness of a keyword: neither None nor the empty string
Truthy(kw) == kw # None /\ kw # <<>>

-----------------------------------------------------------------------------
(* Stat results *)

\* os.path.getsize / os.path.getmtime raised
Unreadable == -1

KB == 1024
DAY == 86400

\* file_size_kb >= k, where file_size_kb = size / 1024 in exact arithmetic
\* (the float division by 1024 is exact for every size below 2^53)
KbAtLeast(size, k) == size >= k * KB

-----------------------------------------------------------------------------
(* FilterCriteria *)

\* FilterCriteria.__init__
NewCriteria ==
    [ present            |-> TRUE,
      only_files         |-> FALSE,
      only_dirs          |-> FALSE,
      only_jar           |-> FALSE,
      only_json          |-> FALSE,
      size_less_than_1mb |-> FALSE,
      size_more_than_1mb |-> FALSE,
      exclude_keyword    |-> None,
      include_keyword    |-> None,
      modified_last_24h  |-> FALSE,
      modified_over_24h  |-> FALSE,
      show_tree          |-> FALSE ]

\* the None that setup_filters returns when no filter is wanted
NoCriteria == [NewCriteria EXCEPT !.present = FALSE]

\* KindFilter without "if is_dir: return True"
KindFilter_NoDirReturn(c, is_dir) ==
    IF c.only_files /\ is_dir THEN [decided |-> TRUE, value |-> FALSE]
    ELSE IF c.only_dirs /\ ~is_dir THEN [decided |-> TRUE, value |-> FALSE]
    ELSE [decided |-> FALSE, value |-> FALSE]

\* filters 1 and 2, and the directory short-circuit: "decided" with the value,
\* or not decided (the entry is a file that goes on to the file filters)
KindFilter(c, is_dir) ==
    IF c.only_files /\ is_dir THEN [decided |-> TRUE, value |-> FALSE]
    ELSE IF c.only_dirs /\ ~is_dir THEN [decided |-> TRUE, value |-> FALSE]
    ELSE IF is_dir THEN [decided |-> TRUE, value |-> TRUE]
    ELSE [decided |-> FALSE, value |-> FALSE]

\* filters 3 and 4 return False
ExtensionRejects(c, entry_name) ==
    \/ c.only_jar /\ ~EndsWith(Lower(entry_name), DotJar)
    \/ c.only_json /\ ~EndsWith(Lower(entry_name), DotJson)

\* SizeRejects with "file_size_kb > 1024" and "file_size_kb <= 1024"
SizeRejects_BoundaryOff(c, size) ==
    /\ size # Unreadable
    /\ \/ c.size_less_than_1mb /\ size > KB * KB
       \/ c.size_more_than_1mb /\ size <= KB * KB

\* filters 5 and 6 return False; a getsize that raises skips both
SizeRejects(c, size) ==
    /\ size # Unreadable
    /\ \/ c.size_less_than_1mb /\ KbAtLeast(size, KB)
       \/ c.size_more_than_1mb /\ ~KbAtLeast(size, KB)

\* KeywordRejects without the lower() calls
KeywordRejects_CaseSensitive(c, entry_name) ==
    \/ Truthy(c.exclude_keyword) /\ Contains(entry_name, c.exclude_keyword)
    \/ Truthy(c.include_keyword) /\ ~Contains(entry_name, c.include_keyword)

\* filters 7 and 8 return False
KeywordRejects(c, entry_name) ==
    \/ Truthy(c.exclude_keyword)
         /\ Contains(Lower(entry_name), Lower(c.exclude_keyword))
    \/ Truthy(c.include_keyword)
         /\ ~Contains(Lower(entry_name), Lower(c.include_keyword))

\* MtimeRejects where a getmtime that raises skips the filter, as for the size
MtimeRejects_FailOpen(c, age) ==
    /\ age # Unreadable
    /\ \/ c.modified_last_24h /\ age > DAY
       \/ c.modified_over_24h /\ age <= DAY

\* filters 9 and 10 return False; a getmtime that raises excludes the entry
\* (age = time.time() - mtime)
MtimeRejects(c, age) ==
    \/ c.modified_last_24h /\ (age = Unreadable \/ age > DAY)
    \/ c.modified_over_24h /\ (age = Unreadable \/ age <= DAY)

\* FilterCriteria.should_include(entry_name, entry_path, is_dir); st is what
\* os.path.getsize(entry_path) and os.path.getmtime(entry_path) give
should_include(c, entry_name, st, is_dir) ==
    IF KindFilter(c, is_dir).decided THEN KindFilter(c, is_dir).value
    ELSE IF ExtensionRejects(c, entry_name) THEN FALSE
    ELSE IF SizeRejects(c, st.size) THEN FALSE
    ELSE IF KeywordRejects(c, entry_name) THEN FALSE
    ELSE IF MtimeRejects(c, st.age) THEN FALSE
    ELSE TRUE

-----------------------------------------------------------------------------
(* setup_filters *)

\* the longest list of filter numbers the user types
MaxFilters == 1

\* keywords typed for filters 7 and 8 (input() never gives None)
KeywordInputs == { <<"L", "O", "G">>, <<>> }

\* answers typed at a yes/no prompt
Answers == { <<"y", "e", "s">>, <<"Y", "E", "S">>, <<"n", "o">> }

\* one element of filter_list with the keyword typed for it: f = 0 is a token
\* that is none of "1".."11"
FilterInputs ==
    { [f |-> n, kw |-> None] : n \in (0..11) \ {7, 8} }
      \cup { [f |-> n, kw |-> k] : n \in {7, 8}, k \in KeywordInputs }

\* one pass of the loop over filter_list
ApplyFilter(c, in) ==
    CASE in.f = 1  -> [c EXCEPT !.only_files = TRUE]
      [] in.f = 2  -> [c EXCEPT !.only_dirs = TRUE]
      [] in.f = 3  -> [c EXCEPT !.only_jar = TRUE]
      [] in.f = 4  -> [c EXCEPT !.only_json = TRUE]
      [] in.f = 5  -> [c EXCEPT !.size_less_than_1mb = TRUE]
      [] in.f = 6  -> [c EXCEPT !.size_more_than_1mb = TRUE]
      [] in.f = 7  -> [c EXCEPT !.exclude_keyword = in.kw]
      [] in.f = 8  -> [c EXCEPT !.include_keyword = in.kw]
      [] in.f = 9  -> [c EXCEPT !.modified_last_24h = TRUE]
      [] in.f = 10 -> [c EXCEPT !.modified_over_24h = TRUE]
      [] in.f = 11 -> [c EXCEPT !.show_tree = TRUE]
      [] OTHER     -> c

RECURSIVE ApplyFilters(_, _)
ApplyFilters(c, filter_list) ==
    IF filter_list = <<>> THEN c
    ELSE ApplyFilters(ApplyFilter(c, Head(filter_list)), Tail(filter_list))

FilterLists == UNION { [1..n -> FilterInputs] : n \in 1..MaxFilters }

\* setup_filters(): None unless the first answer is "yes" in any letter case
setup_filters(filter_choice, filter_list) ==
    IF Lower(filter_choice) # Yes THEN NoCriteria
    ELSE ApplyFilters(NewCriteria, filter_list)

-----------------------------------------------------------------------------
(* The file system *)

N_d    == <<"d">>
N_f    == <<"f">>
N_x    == <<"x">>
N_nope == <<"n">>
N_in   == <<"i", "n">>
N_AJAR == <<"A", ".", "J", "A", "R">>
N_alog == <<"a", ".", "l", "o", "g">>
N_sjar == <<"s", ".", "j", "a", "r">>
N_p    == <<"p">>
N_store == <<"D", "S">>                    \* the Data_Store folder
N_json == <<"o", ".", "j", "s", "o", "n">> \* dataStore.json

\* the most entries the target directory holds at the start
MaxEntries == 3

\* 1024 KiB in bytes
MB == KB * KB

File(size, age) == [kind |-> "file", size |-> size, age |-> age]
Dir == [kind |-> "dir", size |-> 0, age |-> 0]
\* an entry os.stat fails on (a dangling link, an entry of a directory without
\* search permission): isdir and isfile are False, getsize and getmtime raise
Other == [kind |-> "other", size |-> Unreadable, age |-> Unreadable]

\* what the target directory may hold at the start
EntryPool ==
    { [name |-> N_AJAR, ent |-> File(MB, DAY + 1)],
      [name |-> N_alog, ent |-> File(10, 100)],
      [name |-> N_sjar, ent |-> Dir],
      [name |-> N_p,    ent |-> Other] }

Exists(fsys, p) == p \in DOMAIN fsys
IsDir(fsys, p)  == p = <<>> \/ (p \in DOMAIN fsys /\ fsys[p].kind = "dir")
IsFile(fsys, p) == p \in DOMAIN fsys /\ fsys[p].kind = "file"

IsPrefix(p, q) == Len(p) <= Len(q) /\ SubSeq(q, 1, Len(p)) = p
Parent(p) == SubSeq(p, 1, Len(p) - 1)
Basename(p) == p[Len(p)]
\* p and everything below it
Under(fsys, p) == { q \in DOMAIN fsys : IsPrefix(p, q) }
\* os.listdir(p), as a set
Listing(fsys, p) == { Basename(q) : q \in { r \in DOMAIN fsys : Len(r) = Len(p) + 1 /\ IsPrefix(p, r) } }

Restrict(fsys, keep) == [q \in keep |-> fsys[q]]

InitialFs(entries) ==
    LET paths == { <<N_d>>, <<N_f>> }
                 \cup { <<N_d, e.name>> : e \in entries }
                 \cup { <<N_d, e.name, N_in>> : e \in { x \in entries : x.ent.kind = "dir" } }
    IN [ q \in paths |->
           IF q = <<N_d>> THEN Dir
           ELSE IF q = <<N_f>> THEN File(10, 100)
           ELSE IF Len(q) = 3 THEN File(10, DAY)
           ELSE (CHOOSE e \in entries : e.name = q[2]).ent ]

\* every order os.listdir may return the entries in
RECURSIVE Orders(_)
Orders(S) ==
    IF S = {} THEN { <<>> }
    ELSE UNION { { <<e>> \o r : r \in Orders(S \ {e}) } : e \in S }

\* one element of a trace: an input() answered (op = "input": a path typed,
\* in path; op = "confirm": a yes/no prompt answered, in answer) or a call that
\* changes the file system (ok: it did not raise)
Ev(op, what, path, answer, ok) ==
    [op |-> op, what |-> what, path |-> path, answer |-> answer, ok |-> ok]
Input(what, path) == Ev("input", what, path, <<>>, TRUE)
Confirm(what, answer) == Ev("confirm", what, <<>>, answer, TRUE)

\* one printed line; k and n are the numbers it shows
Line(msg, k, n) == [msg |-> msg, k |-> k, n |-> n]
Msg(msg) == Line(msg, 0, 0)

-----------------------------------------------------------------------------
(* collect_files *)

\* round(100 * num / den) to the nearest integer, ties to even: "{:.2f}"
Hundredths(num, den) ==
    LET q == (num * 100) \div den
        r == (num * 100) % den
    IN IF 2 * r > den \/ (2 * r = den /\ q % 2 = 1) THEN q + 1 ELSE q

\* the size string of an entry record
SizeStr(ent) ==
    IF ent.kind = "dir" THEN [unit |-> "bytes", value |-> 0]
    ELSE IF ent.size = Unreadable THEN [unit |-> "Unknown", value |-> 0]
    ELSE IF ~KbAtLeast(ent.size, KB) THEN [unit |-> "KB", value |-> Hundredths(ent.size, KB)]
    ELSE [unit |-> "MB", value |-> Hundredths(ent.size, KB * KB)]

\* the entry record collect_files appends
EntryRecord(name, ent) ==
    [Name |-> name, Type |-> IF ent.kind = "dir" THEN "Directory" ELSE "File", Size |-> SizeStr(ent)]

\* the filters are not applied during collection
Passes_Unfiltered(c, fsys, path, entry) == TRUE

\* "if criteria and not criteria.should_include(...): continue"
Passes(c, fsys, path, entry) ==
    LET ent == fsys[Append(path, entry)]
    IN ~c.present \/ should_include(c, entry, ent, ent.kind = "dir")

\* the loop over the listing, in the order given
RECURSIVE CollectLoop(_, _, _, _)
CollectLoop(c, fsys, path, entries) ==
    IF entries = <<>> THEN <<>>
    ELSE LET entry == Head(entries)
             rest == CollectLoop(c, fsys, path, Tail(entries))
         IN IF Passes(c, fsys, path, entry)
            THEN <<EntryRecord(entry, fsys[Append(path, entry)])>> \o rest
            ELSE rest

Absent(msg) == [ret |-> "None", items |-> <<>>, msgs |-> <<Msg(msg)>>]

\* every result collect_files(path, criteria) can give: ret = "None" is
\* absence, ret = "list" a list (items); msgs is what it printed
collect_files(fsys, path, c) ==
    IF ~Exists(fsys, path) THEN { Absent("Error: Path does not exist.") }
    ELSE IF IsFile(fsys, path) THEN { Absent("This is just a file.") }
    ELSE IF c.present /\ c.show_tree
         THEN { [ret |-> "list", items |-> <<>>, msgs |-> <<Msg("DIRECTORY TREE")>>] }
    ELSE IF ~IsDir(fsys, path) THEN { Absent("Error collecting files") }
    ELSE { Absent("Error: Permission denied"), Absent("Error collecting files") }
         \cup { [ret |-> "list", items |-> CollectLoop(c, fsys, path, entries),
                 msgs |-> <<Line("Collected", Len(CollectLoop(c, fsys, path, entries)), 0)>>]
               : entries \in Orders(Listing(fsys, path)) }

-----------------------------------------------------------------------------
(* Inputs of the menu loop *)

ChoiceInputs ==
    { <<"1">>, <<"2">>, <<"3">>, <<"4">>, <<"9">>,
      <<"e", "x", "i", "t">>, <<"E", "X", "I", "T">> }
Exit == <<"e", "x", "i", "t">>

\* paths typed as the directory to collect or search, the source of a move,
\* the target of a delete
PathInputs == { <<N_d>>, <<N_f>>, <<N_nope>> }
\* paths typed as the destination of a move
DestInputs == { <<N_x>> }
\* locations typed for the JSON file ("" is Enter)
LocationInputs == { <<>>, <<N_store>> }
\* full paths typed for the JSON file
JsonPathInputs == { <<N_store, N_json>>, <<N_nope, N_json>> }
\* file names typed in a search
SearchInputs == { <<"J", "A", "R">>, <<>> }

NoData == [ret |-> "unset", items |-> <<>>, msgs |-> <<>>]
NoProbe == [name |-> <<>>, st |-> Dir, is_dir |-> FALSE]

\* a prompt's answer taken as "yes" whatever was typed
Confirmed_Always(answer) == TRUE

\* confirm = input(...).lower(); confirm == "yes"
Confirmed(answer) == Lower(answer) = Yes

\* the action returns to main()'s loop; c is the criteria it was called with
Return(c, fs2, trace2, out2, data2) ==
    /\ pc' = "returned"
    /\ fs' = fs2
    /\ pre' = fs
    /\ trace' = trace2
    /\ out' = out2
    /\ data' = data2
    /\ criteria' = (IF data2 = NoData THEN NoCriteria ELSE c)
    /\ UNCHANGED <<probe, included>>

-----------------------------------------------------------------------------
(* main *)

\* main(): the menu prompt answered with "exit"
MainExit ==
    /\ pc = "menu"
    /\ \E raw \in ChoiceInputs :
         /\ Lower(raw) = Exit
         /\ pc' = "exited"
         /\ choice' = Lower(raw)
         /\ out' = <<Msg("Goodbye!")>>
         /\ trace' = <<>>
         /\ data' = NoData
         /\ pre' = fs
         /\ UNCHANGED <<criteria, fs, probe, included>>

\* every choice main() can read, after strip().lower()
Choices == { Lower(raw) : raw \in ChoiceInputs }

\* every value setup_filters() can return
SetupResults ==
    { setup_filters(filter_choice, filter_list) :
        filter_choice \in Answers, filter_list \in FilterLists }

\* main(): the menu prompt answered with ch, which is not "exit", then
\* setup_filters() returned c, and the action for ch is called with c
Dispatch(ch, c) ==
    /\ pc = "menu"
    /\ choice' = ch

\* main(): the loop comes round and prints the menu
MainLoop ==
    /\ pc = "returned"
    /\ pc' = "menu"
    /\ out' = <<>>
    /\ trace' = <<>>
    /\ data' = NoData
    /\ pre' = fs
    /\ choice' = <<>>
    /\ criteria' = NoCriteria
    /\ UNCHANGED <<fs, probe, included>>

\* main(): the final else of the dispatch
InvalidChoice(ch, c) ==
    /\ Dispatch(ch, c)
    /\ ch \notin { <<"1">>, <<"2">>, <<"3">>, <<"4">> }
    /\ Return(c, fs, <<>>, <<Msg("Invalid choice.")>>, NoData)

-----------------------------------------------------------------------------
(* choice_1: collect and store *)

\* where the JSON file goes: mk says that os.makedirs(Data_Store) is called
JsonTargets(fsys) ==
    { [mk |-> TRUE, path |-> <<N_store, N_json>>] }
      \cup { IF IsDir(fsys, location) /\ location # <<>>
             THEN [mk |-> FALSE, path |-> Append(location, N_json)]
             ELSE [mk |-> TRUE, path |-> <<N_store, N_json>>]
             : location \in LocationInputs \ { <<>> } }
      \cup { [mk |-> FALSE, path |-> p] : p \in JsonPathInputs }

\* os.makedirs(data_store_dir, exist_ok=True) returned
MakeDirs(fsys) ==
    IF Exists(fsys, <<N_store>>) THEN fsys
    ELSE [q \in DOMAIN fsys \cup { <<N_store>> } |-> IF q = <<N_store>> THEN Dir ELSE fsys[q]]

\* open(json_path, 'w') can succeed
CanWrite(fsys, p) == IsDir(fsys, Parent(p)) /\ (Exists(fsys, p) => IsFile(fsys, p))

\* json.dump wrote the document
WriteFile(fsys, p, doc) ==
    [q \in DOMAIN fsys \cup {p} |-> IF q = p THEN File(Len(doc), 0) ELSE fsys[q]]

\* "Names only"
NamesOnly(items) == [i \in 1..Len(items) |-> [Name |-> items[i].Name]]

choice_1(c) ==
    /\ Dispatch(<<"1">>, c)
    /\ \E path \in PathInputs :
       \E r \in collect_files(fs, path, c) :
         LET asked == <<Input("path", path)>> IN
         \/ /\ r.ret = "None"
            /\ Return(c, fs, asked, r.msgs, r)
         \/ /\ r.ret = "list"
            /\ Len(r.items) = 0
            /\ Return(c, fs, asked, Append(r.msgs, Msg("No files collected (filters may have excluded everything).")), r)
         \/ /\ r.ret = "list"
            /\ Len(r.items) > 0
            /\ \E t \in JsonTargets(fs), store_type \in {"1", "2"} :
                 LET doc == IF store_type = "2" THEN NamesOnly(r.items) ELSE r.items IN
                 \/ \* os.makedirs raises: nothing catches it
                    /\ t.mk
                    /\ pc' = "crashed"
                    /\ trace' = Append(asked, Ev("makedirs", "", <<N_store>>, <<>>, FALSE))
                    /\ out' = r.msgs
                    /\ data' = r
                    /\ criteria' = c
                    /\ pre' = fs
                    /\ UNCHANGED <<fs, probe, included>>
                 \/ \E raises \in BOOLEAN :
                      LET fs1 == IF t.mk THEN MakeDirs(fs) ELSE fs
                          tr1 == IF t.mk THEN Append(asked, Ev("makedirs", "", <<N_store>>, <<>>, TRUE))
                                 ELSE asked
                          ok == ~raises /\ CanWrite(fs1, t.path)
                      IN Return(c, IF ok THEN WriteFile(fs1, t.path, doc) ELSE fs1,
                                Append(tr1, Ev("write", "", t.path, <<>>, ok)),
                                Append(r.msgs, Msg(IF ok THEN "Data saved" ELSE "Error saving JSON")),
                                r)

-----------------------------------------------------------------------------
(* choice_2: search *)

\* the files os.walk(path) visits whose name holds the search term and that
\* pass the filters
Found(fsys, path, search_term, c) ==
    { q \in Under(fsys, path) \ {path} :
        /\ IsDir(fsys, path)
        /\ fsys[q].kind # "dir"
        /\ Contains(Lower(Basename(q)), search_term)
        /\ (~c.present \/ should_include(c, Basename(q), fsys[q], FALSE)) }

choice_2(c) ==
    /\ Dispatch(<<"2">>, c)
    /\ \E path \in PathInputs, raw \in SearchInputs :
         LET found_count == Cardinality(Found(fs, path, Lower(raw), c)) IN
         Return(c, fs, <<Input("path", path)>>,
                <<IF found_count = 0 THEN Msg("No files matching")
                  ELSE Line("Found", found_count, 0)>>,
                NoData)

-----------------------------------------------------------------------------
(* choice_3: move *)

\* where shutil.move(src, dst) puts src
RealDst(fsys, src, dst) ==
    IF IsDir(fsys, dst) THEN Append(dst, Basename(src)) ELSE dst

\* shutil.move(src, dst) can succeed
CanMove(fsys, src, dst) ==
    LET real == RealDst(fsys, src, dst) IN
    /\ ~(IsDir(fsys, dst) /\ Exists(fsys, real))
    /\ IsDir(fsys, Parent(real))
    /\ ~IsPrefix(src, real)
    /\ ~(IsDir(fsys, src) /\ Exists(fsys, real))

\* the file system after the rename
Moved(fsys, src, dst) ==
    LET real == RealDst(fsys, src, dst)
        gone == Under(fsys, src)
        To(q) == real \o SubSeq(q, Len(src) + 1, Len(q))
        stay == DOMAIN fsys \ gone
    IN [q \in stay \cup { To(g) : g \in gone } |->
          IF \E g \in gone : To(g) = q
          THEN fsys[CHOOSE g \in gone : To(g) = q]
          ELSE fsys[q]]

\* the move asks nothing
MoveAsks_Never(fsys, source) == FALSE

\* "Safety check for directories": the move asks before it moves a directory
MoveAsks(fsys, source) == IsDir(fsys, source)

choice_3(c) ==
    /\ Dispatch(<<"3">>, c)
    /\ \E source \in PathInputs :
         LET t0 == <<Input("source", source)>> IN
         \/ /\ ~Exists(fs, source)
            /\ Return(c, fs, t0, <<Msg("Error: Source path does not exist.")>>, NoData)
         \/ /\ Exists(fs, source)
            /\ \E destination \in DestInputs, confirm \in Answers, raises \in BOOLEAN :
                 LET t1 == Append(t0, Input("destination", destination))
                     t2 == IF MoveAsks(fs, source) THEN Append(t1, Confirm("move", confirm)) ELSE t1
                     ok == ~raises /\ CanMove(fs, source, destination)
                 IN IF MoveAsks(fs, source) /\ ~Confirmed(confirm)
                    THEN Return(c, fs, t2, <<Msg("Move cancelled.")>>, NoData)
                    ELSE Return(c, IF ok THEN Moved(fs, source, destination) ELSE fs,
                                Append(t2, Ev("move", "", source, <<>>, ok)),
                                <<Msg(IF ok THEN "Moved" ELSE "Error moving")>>,
                                NoData)

-----------------------------------------------------------------------------
(* choice_4: delete *)

\* DeleteLoop where the first os.remove that raises ends the loop
RECURSIVE DeleteLoop_StopsAtError(_, _, _, _)
DeleteLoop_StopsAtError(fsys, target, items, fails) ==
    IF items = <<>> THEN [fs |-> fsys, deleted |-> 0, trace |-> <<>>, out |-> <<>>]
    ELSE LET file_path == Append(target, Head(items).Name)
             attempt == IsFile(fsys, file_path)
             ok == attempt /\ Head(items).Name \notin fails
             fs1 == IF ok THEN Restrict(fsys, DOMAIN fsys \ {file_path}) ELSE fsys
             rest == IF attempt /\ ~ok
                     THEN [fs |-> fs1, deleted |-> 0, trace |-> <<>>, out |-> <<>>]
                     ELSE DeleteLoop_StopsAtError(fs1, target, Tail(items), fails)
         IN [ fs |-> rest.fs,
              deleted |-> rest.deleted + (IF ok THEN 1 ELSE 0),
              trace |-> (IF attempt THEN <<Ev("remove", "", file_path, <<>>, ok)>> ELSE <<>>)
                          \o rest.trace,
              out |-> (IF ok THEN <<Msg("Deleted:")>>
                       ELSE IF attempt THEN <<Msg("Error deleting")>> ELSE <<>>)
                          \o rest.out ]

\* the loop over data: fails holds the names os.remove raises for; the result
\* is the file system, the count and what was done and printed
RECURSIVE DeleteLoop(_, _, _, _)
DeleteLoop(fsys, target, items, fails) ==
    IF items = <<>> THEN [fs |-> fsys, deleted |-> 0, trace |-> <<>>, out |-> <<>>]
    ELSE LET file_path == Append(target, Head(items).Name)
             attempt == IsFile(fsys, file_path)
             ok == attempt /\ Head(items).Name \notin fails
             fs1 == IF ok THEN Restrict(fsys, DOMAIN fsys \ {file_path}) ELSE fsys
             rest == DeleteLoop(fs1, target, Tail(items), fails)
         IN [ fs |-> rest.fs,
              deleted |-> rest.deleted + (IF ok THEN 1 ELSE 0),
              trace |-> (IF attempt THEN <<Ev("remove", "", file_path, <<>>, ok)>> ELSE <<>>)
                          \o rest.trace,
              out |-> (IF ok THEN <<Msg("Deleted:")>>
                       ELSE IF attempt THEN <<Msg("Error deleting")>> ELSE <<>>)
                          \o rest.out ]

\* the names of the collected items that are files
FileNames(fsys, target, items) ==
    { items[i].Name : i \in { j \in 1..Len(items) : IsFile(fsys, Append(target, items[j].Name)) } }

\* what shutil.rmtree(target) can leave when it raises: everything (it raised
\* at the first entry) or the target alone (it raised at the final rmdir)
RmtreeLeaves(fsys, target) == { Under(fsys, target), {target} }

choice_4(c) ==
    /\ Dispatch(<<"4">>, c)
    /\ \E target \in PathInputs :
         LET t0 == <<Input("target", target)>> IN
         \/ /\ ~Exists(fs, target)
            /\ Return(c, fs, t0, <<Msg("Error: Path does not exist.")>>, NoData)
         \/ \* a file
            /\ IsFile(fs, target)
            /\ \E confirm \in Answers, raises \in BOOLEAN :
                 LET t1 == Append(t0, Confirm("delete", confirm)) IN
                 IF Confirmed(confirm)
                 THEN Return(c, IF raises THEN fs ELSE Restrict(fs, DOMAIN fs \ {target}),
                             Append(t1, Ev("remove", "", target, <<>>, ~raises)),
                             <<Msg(IF raises THEN "Error deleting" ELSE "Deleted:")>>,
                             NoData)
                 ELSE Return(c, fs, t1, <<>>, NoData)
         \/ \* a directory, filters active
            /\ Exists(fs, target) /\ ~IsFile(fs, target) /\ IsDir(fs, target)
            /\ c.present
            /\ \E r \in collect_files(fs, target, c) :
                 LET head == <<Msg("Filters active")>> \o r.msgs IN
                 \/ /\ r.ret = "None" \/ Len(r.items) = 0
                    /\ Return(c, fs, t0, Append(head, Msg("No files match filters. Nothing to delete.")), r)
                 \/ /\ r.ret = "list" /\ Len(r.items) > 0
                    /\ \E confirm \in Answers, fails \in SUBSET FileNames(fs, target, r.items) :
                         LET t1 == Append(t0, Confirm("delete", confirm))
                             listed == Append(head, Line("Files to delete", Len(r.items), 0))
                             d == DeleteLoop(fs, target, r.items, fails)
                         IN IF Confirmed(confirm)
                            THEN Return(c, d.fs, t1 \o d.trace,
                                        listed \o d.out \o <<Line("Deleted k/n", d.deleted, Len(r.items))>>,
                                        r)
                            ELSE /\ fails = {}
                                 /\ Return(c, fs, t1, listed, r)
         \/ \* a directory, no filters
            /\ Exists(fs, target) /\ ~IsFile(fs, target) /\ IsDir(fs, target)
            /\ ~c.present
            /\ \E confirm \in Answers :
                 LET t1 == Append(t0, Confirm("delete", confirm)) IN
                 IF Confirmed(confirm)
                 THEN \/ Return(c, Restrict(fs, DOMAIN fs \ Under(fs, target)),
                                Append(t1, Ev("rmtree", "", target, <<>>, TRUE)),
                                <<Msg("Deleted:")>>, NoData)
                      \/ \E keep \in RmtreeLeaves(fs, target) :
                           Return(c, Restrict(fs, (DOMAIN fs \ Under(fs, target)) \cup keep),
                                  Append(t1, Ev("rmtree", "", target, <<>>, FALSE)),
                                  <<Msg("Error deleting")>>, NoData)
                 ELSE Return(c, fs, t1, <<>>, NoData)
         \/ \* neither a file nor a directory: nothing is done
            /\ Exists(fs, target) /\ ~IsFile(fs, target) /\ ~IsDir(fs, target)
            /\ Return(c, fs, t0, <<>>, NoData)

-----------------------------------------------------------------------------
(* The program *)

InitialEntries == { E \in SUBSET EntryPool : Cardinality(E) <= MaxEntries }

Init ==
    /\ pc = "menu"
    /\ choice = <<>>
    /\ criteria = NoCriteria
    /\ fs \in { InitialFs(E) : E \in InitialEntries }
    /\ pre = fs
    /\ trace = <<>>
    /\ out = <<>>
    /\ data = NoData
    /\ probe = NoProbe
    /\ included = FALSE

\* main(): one turn of the loop for each choice, with whatever setup_filters()
\* returned
Choice1 == pc = "menu" /\ \E c \in SetupResults : choice_1(c)
Choice2 == pc = "menu" /\ \E c \in SetupResults : choice_2(c)
Choice3 == pc = "menu" /\ choice_3(CHOOSE c \in SetupResults : TRUE)  \* choice_3 does not read it
Choice4 == pc = "menu" /\ \E c \in SetupResults : choice_4(c)
ChoiceInvalid ==
    pc = "menu" /\ \E ch \in Choices \ {Exit} : InvalidChoice(ch, CHOOSE c \in SetupResults : TRUE)

Next ==
    \/ MainExit
    \/ Choice1
    \/ Choice2
    \/ Choice3
    \/ Choice4
    \/ ChoiceInvalid
    \/ MainLoop

Spec == Init /\ [][Next]_vars

-----------------------------------------------------------------------------
(* should_include on its own: every setting of the flags, a file or a       *)
(* directory of each name, with sizes and ages on both sides of the limits  *)

N_ljson == <<"l", ".", "j", "s", "o", "n">>
N_jar   == <<"j", "a", "r">>

Keywords == { None, <<>>, <<"L", "O", "G">>, <<"j", "a", "R">> }

AllCriteria ==
    [ present            : {TRUE},
      only_files         : BOOLEAN,
      only_dirs          : BOOLEAN,
      only_jar           : BOOLEAN,
      only_json          : BOOLEAN,
      size_less_than_1mb : BOOLEAN,
      size_more_than_1mb : BOOLEAN,
      exclude_keyword    : Keywords,
      include_keyword    : Keywords,
      modified_last_24h  : BOOLEAN,
      modified_over_24h  : BOOLEAN,
      show_tree          : {FALSE} ]

Probes ==
    [ name   : { N_AJAR, N_alog, N_ljson, N_jar },
      st     : [ kind : {"file"}, size : { Unreadable, 0, MB - 1, MB, MB + 1 },
                 age : { Unreadable, 0, DAY, DAY + 1 } ],
      is_dir : {FALSE} ]
    \cup
    [ name   : { N_AJAR, N_alog },
      st     : { [kind |-> "dir", size |-> Unreadable, age |-> Unreadable],
                 [kind |-> "dir", size |-> MB, age |-> DAY + 1] },
      is_dir : {TRUE} ]

FilterInit ==
    /\ pc = "filter"
    /\ criteria \in AllCriteria
    /\ probe \in Probes
    /\ included = FALSE
    /\ choice = <<>>
    /\ fs = InitialFs({})
    /\ pre = fs
    /\ trace = <<>>
    /\ out = <<>>
    /\ data = NoData

\* criteria.should_include(probe) is called
Evaluate ==
    /\ pc = "filter"
    /\ pc' = "evaluated"
    /\ included' = should_include(criteria, probe.name, probe.st, probe.is_dir)
    /\ UNCHANGED <<choice, criteria, fs, pre, trace, out, data, probe>>

FilterNext == Evaluate

FilterSpec == FilterInit /\ [][FilterNext]_vars

-----------------------------------------------------------------------------
(* Properties of should_include (FilterSpec) *)

Evaluated == pc = "evaluated"

\* C8: for a directory, should_include returns true unless files-only is set,
\* whatever the extension, size, keyword and modification-time filters are and
\* whatever the directory's name, size and modification time (readable or not).
C8_DirectoryIgnoresFileFilters ==
    (Evaluated /\ probe.is_dir) => (included = ~criteria.only_files)

\* C8 witness: a directory that every file filter would reject is included
C8_Witness ==
    /\ Evaluated /\ probe.is_dir /\ included
    /\ probe.name = N_alog
    /\ probe.st.size = Unreadable /\ probe.st.age = Unreadable
    /\ criteria.only_jar /\ criteria.only_json
    /\ criteria.size_less_than_1mb /\ criteria.size_more_than_1mb
    /\ criteria.exclude_keyword = <<"L", "O", "G">>
    /\ criteria.include_keyword = <<"j", "a", "R">>
    /\ criteria.modified_last_24h /\ criteria.modified_over_24h

UnderAlone == [NewCriteria EXCEPT !.size_less_than_1mb = TRUE]
OverAlone  == [NewCriteria EXCEPT !.size_more_than_1mb = TRUE]

\* C9: for a file whose size s can be read, size-under-1MB alone includes it
\* iff s < 1048576 and size-over-1MB alone includes it iff s >= 1048576 (so a
\* file of exactly 1048576 bytes fails the first and passes the second), and
\* with both flags set no such file is included.
C9_SizePartition ==
    (Evaluated /\ ~probe.is_dir /\ probe.st.size # Unreadable) =>
        /\ criteria = UnderAlone => (included <=> probe.st.size < 1024 * 1024)
        /\ criteria = OverAlone => (included <=> probe.st.size >= 1024 * 1024)
        /\ (criteria.size_less_than_1mb /\ criteria.size_more_than_1mb) => ~included

\* C9 witness: a file of exactly 1024 KiB passes "larger than 1MB"
C9_Witness ==
    /\ Evaluated /\ ~probe.is_dir
    /\ probe.st.size = 1024 * 1024
    /\ criteria = OverAlone
    /\ included

\* the sub-filters of a file entry, each on its own
PassesDirsOnly(c)  == ~c.only_dirs
PassesJar(c, name) == c.only_jar => EndsWith(Lower(name), DotJar)
PassesJson(c, name) == c.only_json => EndsWith(Lower(name), DotJson)
PassesUnder(c, size) == (c.size_less_than_1mb /\ size # Unreadable) => size < 1024 * 1024
PassesOver(c, size) == (c.size_more_than_1mb /\ size # Unreadable) => size >= 1024 * 1024
PassesExclude(c, name) ==
    Truthy(c.exclude_keyword) => ~Contains(Lower(name), Lower(c.exclude_keyword))
PassesInclude(c, name) ==
    Truthy(c.include_keyword) => Contains(Lower(name), Lower(c.include_keyword))
PassesWithin(c, age) == c.modified_last_24h => (age # Unreadable /\ age <= 86400)
PassesOutside(c, age) == c.modified_over_24h => (age # Unreadable /\ age > 86400)

NoFlagSet(c) ==
    /\ ~c.only_files /\ ~c.only_dirs /\ ~c.only_jar /\ ~c.only_json
    /\ ~c.size_less_than_1mb /\ ~c.size_more_than_1mb
    /\ ~Truthy(c.exclude_keyword) /\ ~Truthy(c.include_keyword)
    /\ ~c.modified_last_24h /\ ~c.modified_over_24h

\* C10: for a file, should_include returns true iff the entry passes every
\* active sub-filter (a keyword is active when it is a non-empty string; a size
\* that cannot be read passes the size filters, a modification time that
\* cannot be read fails the modification-time filters); with no flag set every
\* entry is included, and with files-only and directories-only both set no
\* entry of either kind is.
C10_Conjunction ==
    Evaluated =>
        /\ ~probe.is_dir =>
             (included <=>
                /\ PassesDirsOnly(criteria)
                /\ PassesJar(criteria, probe.name)
                /\ PassesJson(criteria, probe.name)
                /\ PassesUnder(criteria, probe.st.size)
                /\ PassesOver(criteria, probe.st.size)
                /\ PassesExclude(criteria, probe.name)
                /\ PassesInclude(criteria, probe.name)
                /\ PassesWithin(criteria, probe.st.age)
                /\ PassesOutside(criteria, probe.st.age))
        /\ NoFlagSet(criteria) => included
        /\ (criteria.only_files /\ criteria.only_dirs) => ~included

\* C10 witness: include-keyword "LOG" matches the file "a.log", which also
\* passes an active size and an active modification-time filter
C10_Witness ==
    /\ Evaluated /\ ~probe.is_dir /\ included
    /\ probe.name = N_alog
    /\ criteria.include_keyword = <<"L", "O", "G">>
    /\ criteria.exclude_keyword = <<"j", "a", "R">>
    /\ criteria.size_less_than_1mb
    /\ criteria.modified_last_24h

\* the criteria with both size flags / both modification-time flags cleared
SizeFlagsCleared(c) ==
    [c EXCEPT !.size_less_than_1mb = FALSE, !.size_more_than_1mb = FALSE]
MtimeFlagsCleared(c) ==
    [c EXCEPT !.modified_last_24h = FALSE, !.modified_over_24h = FALSE]

\* the probe is a file that passes every check made before the
\* modification-time filters (kind, extension, size, keywords)
PassedEarlierChecks ==
    /\ ~probe.is_dir
    /\ PassesDirsOnly(criteria)
    /\ PassesJar(criteria, probe.name)
    /\ PassesJson(criteria, probe.name)
    /\ PassesUnder(criteria, probe.st.size)
    /\ PassesOver(criteria, probe.st.size)
    /\ PassesExclude(criteria, probe.name)
    /\ PassesInclude(criteria, probe.name)

\* C11: for a file whose size cannot be read the result is the one the same
\* criteria give with both size flags cleared; for a file whose modification
\* time cannot be read the result is false whenever within-24h or outside-24h
\* is set and the entry passed all earlier checks, and with neither of the two
\* flags set it is the result a readable modification time gives.
C11_StatFailureAsymmetry ==
    (Evaluated /\ ~probe.is_dir) =>
        /\ probe.st.size = Unreadable =>
             included = should_include(SizeFlagsCleared(criteria), probe.name, probe.st, FALSE)
        /\ (/\ probe.st.age = Unreadable
            /\ criteria.modified_last_24h \/ criteria.modified_over_24h
            /\ PassedEarlierChecks)
             => ~included
        /\ (/\ probe.st.age = Unreadable
            /\ ~criteria.modified_last_24h /\ ~criteria.modified_over_24h)
             => \A age \in {0, 86400, 86400 + 1} :
                   included = should_include(criteria, probe.name, [probe.st EXCEPT !.age = age], FALSE)

\* C11 witness: neither the size nor the modification time of the file can be
\* read; both size filters are set and do not exclude it (it passed every
\* earlier check), and the within-24h filter excludes it
C11_Witness ==
    /\ Evaluated /\ ~probe.is_dir
    /\ probe.st.size = Unreadable /\ probe.st.age = Unreadable
    /\ criteria.size_less_than_1mb /\ criteria.size_more_than_1mb
    /\ criteria.modified_last_24h /\ ~criteria.modified_over_24h
    /\ PassedEarlierChecks
    /\ should_include(MtimeFlagsCleared(criteria), probe.name, probe.st, FALSE)
    /\ ~included

-----------------------------------------------------------------------------
(* Properties of the menu loop (Spec) *)

Returned == pc = "returned"
Range(seq) == { seq[i] : i \in 1..Len(seq) }

\* the calls that change the file system in move and delete
Mutation(e) == e.op \in {"move", "remove", "rmtree"}
\* a call that went through
Performed(e) == Mutation(e) /\ e.ok

\* trace[i] comes after a confirmation that answered(answer), with nothing
\* but calls of the same kind in between
ConfirmedBefore(i, answered(_)) ==
    \E j \in 1..(i - 1) :
        /\ trace[j].op = "confirm"
        /\ answered(trace[j].answer)
        /\ \A k \in (j + 1)..(i - 1) : trace[k].op = trace[i].op

ExactlyYes(answer) == answer = <<"y", "e", "s">>
YesAnyCase(answer) == Lower(answer) = <<"y", "e", "s">>

\* C1 as stated: in move and delete, every shutil.move, os.remove and
\* shutil.rmtree comes after a confirmation answered exactly 'yes' in the same
\* action, and without such an answer the action leaves the file system as
\* it was.
C1_Original ==
    (Returned /\ choice \in { <<"3">>, <<"4">> }) =>
        /\ \A i \in 1..Len(trace) : Performed(trace[i]) => ConfirmedBefore(i, ExactlyYes)
        /\ (\A i \in 1..Len(trace) : ~(trace[i].op = "confirm" /\ ExactlyYes(trace[i].answer)))
             => fs = pre

\* a move of something that is not a directory
FileMove(e) == e.op = "move" /\ ~IsDir(pre, e.path)

\* C1 amended: every os.remove and shutil.rmtree of the delete action and
\* every shutil.move of a directory comes after a confirmation, earlier in the
\* same action, whose answer is 'yes' in some letter case, with nothing but
\* removals of the same batch in between; a move of a file is made without
\* any confirmation prompt; an action that neither got such an answer nor
\* moved a file leaves the file system as it was.
C1_ConfirmedMutations ==
    (Returned /\ choice \in { <<"3">>, <<"4">> }) =>
        /\ \A i \in 1..Len(trace) :
             (Mutation(trace[i]) /\ ~FileMove(trace[i])) => ConfirmedBefore(i, YesAnyCase)
        /\ \A i \in 1..Len(trace) :
             FileMove(trace[i]) => \A j \in 1..Len(trace) : trace[j].op # "confirm"
        /\ (\A i \in 1..Len(trace) :
              /\ ~(trace[i].op = "confirm" /\ YesAnyCase(trace[i].answer))
              /\ ~FileMove(trace[i]))
             => fs = pre

\* C1 witness: a directory was moved after the prompt was answered "YES"
C1_Witness ==
    /\ Returned /\ choice = <<"3">>
    /\ Len(trace) = 4
    /\ trace[3].op = "confirm" /\ trace[3].answer = <<"Y", "E", "S">>
    /\ trace[4].op = "move" /\ trace[4].ok /\ IsDir(pre, trace[4].path)
    /\ fs # pre

\* the filtered delete of a directory ran to the end with the prompt confirmed
BatchDeleteDone ==
    /\ Returned /\ choice = <<"4">>
    /\ criteria.present
    /\ data.ret = "list"
    /\ \E i \in 1..Len(trace) : trace[i].op = "confirm" /\ YesAnyCase(trace[i].answer)

\* the path typed at the action's first prompt
Typed == trace[1].path

\* the immediate-child files of the target that pass should_include
MatchedFiles ==
    { Append(Typed, n) : n \in { m \in Listing(pre, Typed) :
        /\ IsFile(pre, Append(Typed, m))
        /\ should_include(criteria, m, pre[Append(Typed, m)], FALSE) } }

\* the paths os.remove was called for / raised for
Attempted == { e.path : e \in { x \in Range(trace) : x.op = "remove" } }
FailedAt  == { e.path : e \in { x \in Range(trace) : x.op = "remove" /\ ~x.ok } }

\* C2: a confirmed filtered delete of a directory calls os.remove for every
\* immediate-child file that passes should_include, whether or not an earlier
\* removal raised, and for nothing else; the entries gone afterwards are
\* exactly the matched files whose removal did not raise, so every file that
\* fails the predicate, every subdirectory and everything below one remain,
\* unchanged.
C2_BatchDeleteExact ==
    BatchDeleteDone =>
        /\ Attempted = MatchedFiles
        /\ DOMAIN pre \ DOMAIN fs = MatchedFiles \ FailedAt
        /\ DOMAIN fs \subseteq DOMAIN pre
        /\ \A q \in DOMAIN fs : fs[q] = pre[q]

\* C2 witness: with a filter active that rejects nothing, the first removal
\* raised and the second file was removed all the same; the subdirectory and
\* the file below it are still there
C2_Witness ==
    /\ BatchDeleteDone
    /\ Typed = <<N_d>>
    /\ Listing(pre, <<N_d>>) = { N_AJAR, N_alog, N_sjar }
    /\ FailedAt = { <<N_d, N_AJAR>> }
    /\ DOMAIN pre \ DOMAIN fs = { <<N_d, N_alog>> }
    /\ \E i, j \in 1..Len(trace) :
          /\ i < j
          /\ trace[i].op = "remove" /\ ~trace[i].ok
          /\ trace[j].op = "remove" /\ trace[j].ok
    /\ { <<N_d, N_sjar>>, <<N_d, N_sjar, N_in>> } \subseteq DOMAIN fs

\* the answer given at the move's confirmation prompt, if it was asked
MoveAnswers == { e.answer : e \in { x \in Range(trace) : x.op = "confirm" /\ x.what = "move" } }

\* the move returned without touching anything
MoveDidNothing == fs = pre /\ \A e \in Range(trace) : e.op # "move"

\* C3 as stated: a move of a directory whose prompt is answered with anything
\* other than 'yes' changes nothing and reports cancellation; a move whose
\* source does not exist changes nothing and returns before the destination
\* is asked for.
C3_Original ==
    (Returned /\ choice = <<"3">>) =>
        /\ (IsDir(pre, Typed) /\ \E a \in MoveAnswers : a # <<"y", "e", "s">>)
             => (MoveDidNothing /\ out = <<Msg("Move cancelled.")>>)
        /\ ~Exists(pre, Typed)
             => (MoveDidNothing /\ \A e \in Range(trace) : e.what # "destination")

\* C3 amended: a move of an existing directory whose prompt is answered with
\* anything other than 'yes' in some letter case (the answer is lower-cased
\* before it is compared) changes nothing and reports cancellation; a move
\* whose source does not exist changes nothing and returns before the
\* destination is asked for.
C3_CancelledMove ==
    (Returned /\ choice = <<"3">>) =>
        /\ (IsDir(pre, Typed) /\ \E a \in MoveAnswers : Lower(a) # <<"y", "e", "s">>)
             => (MoveDidNothing /\ out = <<Msg("Move cancelled.")>>)
        /\ ~Exists(pre, Typed)
             => (MoveDidNothing /\ \A e \in Range(trace) : e.what # "destination")

\* C3 witness: the move of the directory d was answered "no"
C3_Witness ==
    /\ Returned /\ choice = <<"3">>
    /\ Typed = <<N_d>> /\ IsDir(pre, <<N_d>>)
    /\ MoveAnswers = { <<"n", "o">> }
    /\ out = <<Msg("Move cancelled.")>>
    /\ fs = pre

\* the line each caller of collect_files prints for an empty result
EmptyLine ==
    IF choice = <<"1">> THEN Msg("No files collected (filters may have excluded everything).")
    ELSE Msg("No files match filters. Nothing to delete.")

\* collect_files was called by the last action
Collected == Returned /\ choice \in { <<"1">>, <<"4">> } /\ data.ret # "unset"

\* C4 as stated: collect_files returns absence for a path that does not exist,
\* for a plain file and for a listing error, and a list otherwise; and a
\* caller that got absence does not print the line it prints for an empty
\* list.
C4_Original ==
    Collected =>
        /\ (~Exists(pre, Typed) \/ IsFile(pre, Typed)) => data.ret = "None"
        /\ data.ret = "list" => IsDir(pre, Typed)
        /\ data.ret = "None" => EmptyLine \notin Range(out)

\* the immediate children of the collected directory that pass the filters
PassingChildren ==
    { n \in Listing(pre, Typed) :
        ~criteria.present
          \/ should_include(criteria, n, pre[Append(Typed, n)], pre[Append(Typed, n)].kind = "dir") }

\* the result holds one record for each passing child and nothing else
OneRecordPerPassingChild ==
    /\ Len(data.items) = Cardinality(PassingChildren)
    /\ \A n \in PassingChildren :
         \E i \in 1..Len(data.items) :
            /\ data.items[i].Name = n
            /\ data.items[i].Type = (IF pre[Append(Typed, n)].kind = "dir" THEN "Directory" ELSE "File")

\* C5 as stated: for a directory that can be listed, collect_files with any
\* Filter Criteria returns exactly one record per immediate child that passes
\* should_include and no other record.
C5_Original ==
    (Collected /\ data.ret = "list") => OneRecordPerPassingChild

TreeMode == criteria.present /\ criteria.show_tree

\* C5 amended: for a directory that can be listed, collect_files with any
\* Filter Criteria whose tree-display flag is not set returns exactly one
\* record per immediate child that passes should_include and no other record;
\* with the tree-display flag set it returns the empty list whatever the
\* directory holds.
C5_ShallowCollect ==
    (Collected /\ data.ret = "list") =>
        IF TreeMode THEN data.items = <<>> ELSE OneRecordPerPassingChild

\* C5 witness: of a file that matches, a file that does not, and a
\* subdirectory with a file below it, the match and the subdirectory are
\* collected
C5_Witness ==
    /\ Collected /\ data.ret = "list"
    /\ criteria.only_jar
    /\ Typed = <<N_d>>
    /\ Listing(pre, <<N_d>>) = { N_AJAR, N_alog, N_sjar }
    /\ <<N_d, N_sjar, N_in>> \in DOMAIN pre
    /\ { data.items[i].Name : i \in 1..Len(data.items) } = { N_AJAR, N_sjar }
    /\ Len(data.items) = 2

\* C6 as stated: the total of "Deleted k/n" is the number of entries a
\* removal was attempted for, so that when every attempted removal succeeds
\* the report is n of n.
C6_Original ==
    BatchDeleteDone =>
        \A l \in Range(out) :
            l.msg = "Deleted k/n" =>
                /\ l.n = Cardinality(Attempted)
                /\ (FailedAt = {} => l.k = l.n)

\* C7 as stated: every action returns to the loop and the process ends only
\* when 'exit' was entered at the menu.
C7_Original ==
    /\ pc \in { "menu", "returned", "exited" }
    /\ pc = "exited" => choice = <<"e", "x", "i", "t">>

====
